---- MODULE Spec2Model ----
(***************************************************************************)
(* Packet-buffer (mbuf) shim of dpdk-net-sys: wrapper.c forwards every     *)
(* call to the DPDK inline function of the same name, so each operator     *)
(* below has the body of the rte_* function its wrapper calls.             *)
(*                                                                         *)
(* Widths: data_off, data_len, buf_len and every len argument of the       *)
(* editor are uint16_t (arithmetic modulo 2^16); pkt_len is uint32_t,      *)
(* kept as the pair <<high half, low half>> of 16-bit halves because the   *)
(* model checker's integers are 32-bit signed.                             *)
(***************************************************************************)
EXTENDS Integers, Sequences, FiniteSets, TLC

\* ----------------------------------------------------------------- bounds
NumBufs == 2                \* mbufs over all pools
NumPools == 1               \* mempools
BufLen == 2                 \* data room (buf_len) of pool 1, scaled down
SmallBufLen == 0            \* data room of every other pool (below the headroom)
RTE_PKTMBUF_HEADROOM == 1   \* build-time default headroom, scaled down
MaxLen == 3                 \* largest small len argument tried (> BufLen)
MaxBurst == 2               \* largest nb_pkts of a burst call
TxRingSize == 2             \* descriptors of the transmit ring
MaxFrame == 2               \* longest frame the NIC receives
MaxOverrides == 1           \* unchecked setter calls in one run of Spec
MaxEditOverrides == 2       \* unchecked setter calls in one run of SpecEdit
NumLcores == 3              \* logical cores, one pinned worker on each
MaxErrno == 2               \* largest error code stored

U16 == 2^16
U16Max == U16 - 1

Bufs == 1..NumBufs
Pools == 1..NumPools
Lens == 0..MaxLen
Lcores == 0..(NumLcores - 1)
Errnos == 0..MaxErrno
NULL == 0

VARIABLES
    mbuf,       \* mbuf[b]: the metadata of struct rte_mbuf b
    free,       \* free[p]: the mbufs lying in mempool p
    rxq,        \* receive ring: heads of received packets, oldest first
    txq,        \* transmit ring: heads accepted by tx_burst, oldest first
    owned,      \* packet heads the caller holds a handle to
    overrides,  \* set_data_len / set_pkt_len calls made so far
    last,       \* the last call: its name, arguments and result
    per_lcore__rte_errno,   \* the thread-local rte_errno of each lcore's worker
    written,    \* written[c]: the value core c passed to its latest set
    errlast     \* the last errno call: its name, core and value

errvars == <<per_lcore__rte_errno, written, errlast>>
vars == <<mbuf, free, rxq, txq, owned, overrides, last, errvars>>

\* ------------------------------------------------------------ 32-bit pkt_len
ToU32(n) == <<(n \div U16) % U16, n % U16>>
U32Max == <<U16Max, U16Max>>
Add32(p, n) == <<(p[1] + ((p[2] + n) \div U16)) % U16, (p[2] + n) % U16>>
Sub32(p, n) ==
    IF p[2] >= n THEN <<p[1], p[2] - n>>
    ELSE <<(p[1] + U16 - 1) % U16, p[2] + U16 - n>>

\* ------------------------------------------------------------------- pools
\* m->pool: the mempool an mbuf was created in; it never changes.
PoolOf(b) == ((b - 1) % NumPools) + 1
\* m->buf_len: the data room of the mbuf's pool, fixed at pool creation.
rust_pktmbuf_data_room_size(p) == IF p = 1 THEN BufLen ELSE SmallBufLen
buf_len(b) == rust_pktmbuf_data_room_size(PoolOf(b))
\* rte_pktmbuf_reset_headroom: data_off = RTE_MIN(RTE_PKTMBUF_HEADROOM, buf_len).
DefaultHeadroom(b) ==
    IF RTE_PKTMBUF_HEADROOM < buf_len(b) THEN RTE_PKTMBUF_HEADROOM ELSE buf_len(b)

\* ------------------------------------------------------------------ chains
RECURSIVE ChainFrom(_, _, _)
ChainFrom(mb, m, fuel) ==
    IF m = NULL \/ fuel = 0 THEN <<>>
    ELSE <<m>> \o ChainFrom(mb, mb[m].next, fuel - 1)
\* The segments of the packet whose head is m, head first.
Chain(mb, m) == ChainFrom(mb, m, NumBufs)
\* rte_pktmbuf_lastseg: while (m->next != NULL) m = m->next.
rte_pktmbuf_lastseg(mb, m) == Chain(mb, m)[Len(Chain(mb, m))]

SeqRange(s) == {s[i] : i \in 1..Len(s)}
RECURSIVE SumDataLen(_, _)
SumDataLen(mb, s) ==
    IF s = <<>> THEN 0 ELSE mb[Head(s)].data_len + SumDataLen(mb, Tail(s))

\* ------------------------------------------------------------- accessors
rust_pktmbuf_data_len(mb, m) == mb[m].data_len
rust_pktmbuf_pkt_len(mb, m) == mb[m].pkt_len
rust_pktmbuf_headroom(mb, m) == mb[m].data_off
\* (uint16_t)(m->buf_len - rte_pktmbuf_headroom(m) - m->data_len)
rust_pktmbuf_tailroom(mb, m) ==
    (buf_len(m) - rust_pktmbuf_headroom(mb, m) - mb[m].data_len) % U16
\* buf_addr + data_off, as an offset into m's data room
rust_pktmbuf_mtod(mb, m) == [seg |-> m, off |-> mb[m].data_off]
NullPtr == [seg |-> NULL, off |-> 0]

\* ------------------------------------------------------------- allocator
\* Mutant: the headroom is left where it is.
rust_pktmbuf_reset_keeps_data_off(mb, m) ==
    [mb EXCEPT ![m] = [next |-> NULL, pkt_len |-> ToU32(0),
                       data_off |-> mb[m].data_off, data_len |-> 0]]

\* rte_pktmbuf_reset: next = NULL, pkt_len = 0, headroom back to the default,
\* data_len = 0.  Segments chained behind m are not walked.
rust_pktmbuf_reset(mb, m) ==
    [mb EXCEPT ![m] = [next |-> NULL, pkt_len |-> ToU32(0),
                       data_off |-> DefaultHeadroom(m), data_len |-> 0]]

\* Mutant: the get may fail though the pool holds objects.
rte_mbuf_raw_alloc_may_fail(fr, p) == fr[p] \cup {NULL}

\* rte_mbuf_raw_alloc: what rte_mempool_get can hand out of pool p; NULL when
\* the pool is empty.  Which free object is taken is the mempool's business.
rte_mbuf_raw_alloc(fr, p) == IF fr[p] = {} THEN {NULL} ELSE fr[p]

\* Mutant: the raw mbuf is handed out as it left the pool, without the reset.
rust_pktmbuf_alloc_raw(mb, fr, p, m) ==
    IF m = NULL THEN [mb |-> mb, free |-> fr, ret |-> NULL]
    ELSE [mb |-> mb, free |-> [fr EXCEPT ![p] = @ \ {m}], ret |-> m]

\* rte_pktmbuf_alloc: if ((m = rte_mbuf_raw_alloc(mp)) != NULL) rte_pktmbuf_reset(m).
rust_pktmbuf_alloc(mb, fr, p, m) ==
    IF m = NULL THEN [mb |-> mb, free |-> fr, ret |-> NULL]
    ELSE [mb |-> rust_pktmbuf_reset(mb, m),
          free |-> [fr EXCEPT ![p] = @ \ {m}], ret |-> m]

\* rte_pktmbuf_free_seg on each segment of s in turn: rte_pktmbuf_prefree_seg
\* clears next, rte_mbuf_raw_free puts the segment into m->pool.  The lengths
\* and data_off are left as they are.
RECURSIVE FreeSegs(_, _, _)
FreeSegs(mb, fr, s) ==
    IF s = <<>> THEN [mb |-> mb, free |-> fr]
    ELSE FreeSegs([mb EXCEPT ![Head(s)].next = NULL],
                  [fr EXCEPT ![PoolOf(Head(s))] = @ \cup {Head(s)}], Tail(s))

\* Mutant: only the head segment is returned (rte_pktmbuf_free_seg).
rust_pktmbuf_free_head_only(mb, fr, m) == FreeSegs(mb, fr, <<m>>)

\* rte_pktmbuf_free: while (m != NULL) { m_next = m->next; free_seg(m); m = m_next; }
rust_pktmbuf_free(mb, fr, m) == FreeSegs(mb, fr, Chain(mb, m))

\* ---------------------------------------------------------------- editor
\* Mutant: the tailroom check is missing.
rust_pktmbuf_append_unchecked(mb, m, len) ==
    LET m_last == rte_pktmbuf_lastseg(mb, m) IN
    [mb |-> [mb EXCEPT ![m_last].data_len = (@ + len) % U16,
                       ![m].pkt_len = Add32(@, len)],
     ret |-> [seg |-> m_last,
              off |-> mb[m_last].data_off + mb[m_last].data_len]]

\* Mutant: the head is grown instead of the last segment.
rust_pktmbuf_append_to_head(mb, m, len) ==
    IF len > rust_pktmbuf_tailroom(mb, m) THEN [mb |-> mb, ret |-> NullPtr]
    ELSE [mb |-> [mb EXCEPT ![m].data_len = (@ + len) % U16,
                            ![m].pkt_len = Add32(@, len)],
          ret |-> [seg |-> m, off |-> mb[m].data_off + mb[m].data_len]]

\* Mutant: one byte more than the tailroom is let through.
rust_pktmbuf_append_off_by_one(mb, m, len) ==
    LET m_last == rte_pktmbuf_lastseg(mb, m) IN
    IF len > rust_pktmbuf_tailroom(mb, m_last) + 1 THEN [mb |-> mb, ret |-> NullPtr]
    ELSE [mb |-> [mb EXCEPT ![m_last].data_len = (@ + len) % U16,
                            ![m].pkt_len = Add32(@, len)],
          ret |-> [seg |-> m_last,
                   off |-> mb[m_last].data_off + mb[m_last].data_len]]

\* rte_pktmbuf_append: acts on the last segment, pkt_len on the head.
rust_pktmbuf_append(mb, m, len) ==
    LET m_last == rte_pktmbuf_lastseg(mb, m) IN
    IF len > rust_pktmbuf_tailroom(mb, m_last) THEN [mb |-> mb, ret |-> NullPtr]
    ELSE [mb |-> [mb EXCEPT ![m_last].data_len = (@ + len) % U16,
                            ![m].pkt_len = Add32(@, len)],
          ret |-> [seg |-> m_last,
                   off |-> mb[m_last].data_off + mb[m_last].data_len]]

\* Mutant: the headroom test is missing.
rust_pktmbuf_prepend_unchecked(mb, m, len) ==
    LET nb == [mb EXCEPT ![m].data_off = (@ - len) % U16,
                         ![m].data_len = (@ + len) % U16,
                         ![m].pkt_len = Add32(@, len)]
    IN [mb |-> nb, ret |-> rust_pktmbuf_mtod(nb, m)]

\* Mutant: len equal to the headroom is refused.
rust_pktmbuf_prepend_strict(mb, m, len) ==
    IF len >= rust_pktmbuf_headroom(mb, m) THEN [mb |-> mb, ret |-> NullPtr]
    ELSE LET nb == [mb EXCEPT ![m].data_off = (@ - len) % U16,
                              ![m].data_len = (@ + len) % U16,
                              ![m].pkt_len = Add32(@, len)]
         IN [mb |-> nb, ret |-> rust_pktmbuf_mtod(nb, m)]

\* rte_pktmbuf_prepend
rust_pktmbuf_prepend(mb, m, len) ==
    IF len > rust_pktmbuf_headroom(mb, m) THEN [mb |-> mb, ret |-> NullPtr]
    ELSE LET nb == [mb EXCEPT ![m].data_off = (@ - len) % U16,
                              ![m].data_len = (@ + len) % U16,
                              ![m].pkt_len = Add32(@, len)]
         IN [mb |-> nb, ret |-> rust_pktmbuf_mtod(nb, m)]

\* Mutant: the data start is not moved.
rust_pktmbuf_adj_keeps_data_off(mb, m, len) ==
    IF len > mb[m].data_len THEN [mb |-> mb, ret |-> NullPtr]
    ELSE LET nb == [mb EXCEPT ![m].data_len = (@ - len) % U16,
                              ![m].pkt_len = Sub32(@, len)]
         IN [mb |-> nb, ret |-> rust_pktmbuf_mtod(nb, m)]

\* rte_pktmbuf_adj
rust_pktmbuf_adj(mb, m, len) ==
    IF len > mb[m].data_len THEN [mb |-> mb, ret |-> NullPtr]
    ELSE LET nb == [mb EXCEPT ![m].data_len = (@ - len) % U16,
                              ![m].data_off = (@ + len) % U16,
                              ![m].pkt_len = Sub32(@, len)]
         IN [mb |-> nb, ret |-> rust_pktmbuf_mtod(nb, m)]

\* Mutant: len equal to the data_len is refused.
rust_pktmbuf_trim_strict(mb, m, len) ==
    LET m_last == rte_pktmbuf_lastseg(mb, m) IN
    IF len >= mb[m_last].data_len THEN [mb |-> mb, ret |-> -1]
    ELSE [mb |-> [mb EXCEPT ![m_last].data_len = (@ - len) % U16,
                            ![m].pkt_len = Sub32(@, len)],
          ret |-> 0]

\* Mutant: the head is trimmed instead of the last segment.
rust_pktmbuf_trim_head(mb, m, len) ==
    IF len > mb[m].data_len THEN [mb |-> mb, ret |-> -1]
    ELSE [mb |-> [mb EXCEPT ![m].data_len = (@ - len) % U16,
                            ![m].pkt_len = Sub32(@, len)],
          ret |-> 0]

\* Mutant: pkt_len of the head is not updated.
rust_pktmbuf_trim_keeps_pkt_len(mb, m, len) ==
    LET m_last == rte_pktmbuf_lastseg(mb, m) IN
    IF len > mb[m_last].data_len THEN [mb |-> mb, ret |-> -1]
    ELSE [mb |-> [mb EXCEPT ![m_last].data_len = (@ - len) % U16], ret |-> 0]

\* rte_pktmbuf_trim: acts on the last segment; returns 0, or -1 on failure.
rust_pktmbuf_trim(mb, m, len) ==
    LET m_last == rte_pktmbuf_lastseg(mb, m) IN
    IF len > mb[m_last].data_len THEN [mb |-> mb, ret |-> -1]
    ELSE [mb |-> [mb EXCEPT ![m_last].data_len = (@ - len) % U16,
                            ![m].pkt_len = Sub32(@, len)],
          ret |-> 0]

\* Mutant: the length is clamped to the room behind the headroom.
rust_pktmbuf_set_data_len_clamped(mb, m, len) ==
    [mb EXCEPT ![m].data_len =
        IF len > (buf_len(m) - mb[m].data_off) % U16
        THEN (buf_len(m) - mb[m].data_off) % U16 ELSE len]

\* m->data_len = len
rust_pktmbuf_set_data_len(mb, m, len) == [mb EXCEPT ![m].data_len = len]
\* m->pkt_len = len
rust_pktmbuf_set_pkt_len(mb, m, len32) == [mb EXCEPT ![m].pkt_len = len32]

\* ----------------------------------------------------------------- bursts
Min(a, b) == IF a < b THEN a ELSE b

\* Mutant: the packets handed out stay in the receive ring.
rust_eth_rx_burst_keeps_ring(q, nb_pkts) ==
    LET k == Min(nb_pkts, Len(q)) IN
    [pkts |-> SubSeq(q, 1, k), rxq |-> q, ret |-> k]

\* rte_eth_rx_burst: one poll of the receive ring, at most nb_pkts packets.
rust_eth_rx_burst(q, nb_pkts) ==
    LET k == Min(nb_pkts, Len(q)) IN
    [pkts |-> SubSeq(q, 1, k), rxq |-> SubSeq(q, k + 1, Len(q)), ret |-> k]

\* The counts the driver may accept of tx_pkts: no more than the free descriptors.
TxAccepts(q, tx_pkts) == 0..Min(Len(tx_pkts), TxRingSize - Len(q))

\* Mutant: the ring takes every packet though only k are reported accepted.
rust_eth_tx_burst_takes_all(q, tx_pkts, k) ==
    [txq |-> q \o tx_pkts, ret |-> k]

\* Mutant: the whole burst is reported accepted though only k entered the ring.
rust_eth_tx_burst_reports_all(q, tx_pkts, k) ==
    [txq |-> q \o SubSeq(tx_pkts, 1, k), ret |-> Len(tx_pkts)]

\* rte_eth_tx_burst: one enqueue attempt; the first k packets enter the ring.
rust_eth_tx_burst(q, tx_pkts, k) ==
    [txq |-> q \o SubSeq(tx_pkts, 1, k), ret |-> k]

\* ------------------------------------------------------- caller's handles
\* The owner type of the Rust layer above the shim: a call takes a handle the
\* caller holds; free and an accepted tx consume it; alloc and rx create one.
Holds(hs, m) == m \in hs
Consume(hs, ms) == hs \ ms
Acquire(hs, ms) == hs \cup ms

\* Arrays of at most n distinct elements of S (the tx_pkts of one burst).
Arrays(S, n) ==
    UNION {{s \in [1..k -> S] : \A i, j \in 1..k : i # j => s[i] # s[j]} : k \in 0..n}

\* ----------------------------------------------------------- explored window
\* Runs are explored while every field stays in a window around the data room:
\* small values, the top of the 16-bit range, and for pkt_len the values just
\* below 2^32 that an underflow produces.
Near16(x) == x <= MaxLen \/ x >= U16 - MaxLen
InWindow(mb) ==
    \A b \in Bufs :
        /\ Near16(mb[b].data_off)
        /\ Near16(mb[b].data_len)
        /\ mb[b].pkt_len[1] \in {0, U16Max}
        /\ Near16(mb[b].pkt_len[2])

NoCall == [op |-> "init", m |-> NULL, len |-> 0, len32 |-> ToU32(0),
           ret |-> 0, ptr |-> NullPtr, pkts |-> <<>>]
Call(op, m, len, ret) == [NoCall EXCEPT !.op = op, !.m = m, !.len = len, !.ret = ret]

\* ------------------------------------------------------------------ errno
\* rte_errno is RTE_PER_LCORE(_rte_errno): a thread-local int, one instance
\* for the worker thread of each lcore.  e maps an lcore to its instance.
\* Mutant: one instance shared by every thread.
rust_set_rte_errno_shared(e, lcore, err) == [c \in Lcores |-> err]

\* rte_errno = err, on the calling thread
rust_set_rte_errno(e, lcore, err) == [e EXCEPT ![lcore] = err]
\* return rte_errno, on the calling thread
rust_get_rte_errno(e, lcore) == e[lcore]

\* Thread-local storage starts zeroed.
ErrInit ==
    /\ per_lcore__rte_errno = [c \in Lcores |-> 0]
    /\ written = [c \in Lcores |-> 0]
    /\ errlast = [op |-> "init", lcore |-> 0, val |-> 0]

\* -------------------------------------------------------------------- Init
\* After rte_pktmbuf_pool_create: every mbuf lies in its pool, initialised by
\* rte_pktmbuf_init (lengths 0, default headroom, no next).
Init ==
    /\ mbuf = [b \in Bufs |-> [next |-> NULL, pkt_len |-> ToU32(0),
                               data_off |-> DefaultHeadroom(b), data_len |-> 0]]
    /\ free = [p \in Pools |-> {b \in Bufs : PoolOf(b) = p}]
    /\ rxq = <<>>
    /\ txq = <<>>
    /\ owned = {}
    /\ overrides = 0
    /\ last = NoCall
    /\ ErrInit

\* ----------------------------------------------------------------- actions
Alloc(p) ==
    \E m \in rte_mbuf_raw_alloc(free, p) :
        LET r == rust_pktmbuf_alloc(mbuf, free, p, m) IN
        /\ mbuf' = r.mb
        /\ free' = r.free
        /\ owned' = IF r.ret = NULL THEN owned ELSE Acquire(owned, {r.ret})
        /\ last' = Call("alloc", r.ret, p, r.ret)
        /\ UNCHANGED <<rxq, txq, overrides, errvars>>

Free(m) ==
    /\ Holds(owned, m)
    /\ LET r == rust_pktmbuf_free(mbuf, free, m) IN
        /\ mbuf' = r.mb
        /\ free' = r.free
    /\ owned' = Consume(owned, {m})
    /\ last' = Call("free", m, 0, 0)
    /\ UNCHANGED <<rxq, txq, overrides, errvars>>

PktAppend(m, len) ==
    /\ Holds(owned, m)
    /\ LET r == rust_pktmbuf_append(mbuf, m, len) IN
        /\ InWindow(r.mb)
        /\ mbuf' = r.mb
        /\ last' = [Call("append", m, len, 0) EXCEPT !.ptr = r.ret]
    /\ UNCHANGED <<free, rxq, txq, owned, overrides, errvars>>

PktPrepend(m, len) ==
    /\ Holds(owned, m)
    /\ LET r == rust_pktmbuf_prepend(mbuf, m, len) IN
        /\ InWindow(r.mb)
        /\ mbuf' = r.mb
        /\ last' = [Call("prepend", m, len, 0) EXCEPT !.ptr = r.ret]
    /\ UNCHANGED <<free, rxq, txq, owned, overrides, errvars>>

PktAdj(m, len) ==
    /\ Holds(owned, m)
    /\ LET r == rust_pktmbuf_adj(mbuf, m, len) IN
        /\ InWindow(r.mb)
        /\ mbuf' = r.mb
        /\ last' = [Call("adj", m, len, 0) EXCEPT !.ptr = r.ret]
    /\ UNCHANGED <<free, rxq, txq, owned, overrides, errvars>>

PktTrim(m, len) ==
    /\ Holds(owned, m)
    /\ LET r == rust_pktmbuf_trim(mbuf, m, len) IN
        /\ InWindow(r.mb)
        /\ mbuf' = r.mb
        /\ last' = Call("trim", m, len, r.ret)
    /\ UNCHANGED <<free, rxq, txq, owned, overrides, errvars>>

PktReset(m) ==
    /\ Holds(owned, m)
    /\ mbuf' = rust_pktmbuf_reset(mbuf, m)
    /\ last' = Call("reset", m, 0, 0)
    /\ UNCHANGED <<free, rxq, txq, owned, overrides, errvars>>

SetDataLen(m, len) ==
    /\ Holds(owned, m)
    /\ mbuf' = rust_pktmbuf_set_data_len(mbuf, m, len)
    /\ overrides' = overrides + 1
    /\ last' = Call("set_data_len", m, len, 0)
    /\ UNCHANGED <<free, rxq, txq, owned, errvars>>

SetPktLen(m, len32) ==
    /\ Holds(owned, m)
    /\ mbuf' = rust_pktmbuf_set_pkt_len(mbuf, m, len32)
    /\ overrides' = overrides + 1
    /\ last' = [Call("set_pkt_len", m, 0, 0) EXCEPT !.len32 = len32]
    /\ UNCHANGED <<free, rxq, txq, owned, errvars>>

RxBurst(nb_pkts) ==
    LET r == rust_eth_rx_burst(rxq, nb_pkts) IN
    /\ rxq' = r.rxq
    /\ owned' = Acquire(owned, SeqRange(r.pkts))
    /\ last' = [Call("rx_burst", NULL, nb_pkts, r.ret) EXCEPT !.pkts = r.pkts]
    /\ UNCHANGED <<mbuf, free, txq, overrides, errvars>>

TxBurst(tx_pkts) ==
    \E k \in TxAccepts(txq, tx_pkts) :
        LET r == rust_eth_tx_burst(txq, tx_pkts, k) IN
        /\ txq' = r.txq
        /\ owned' = Consume(owned, SeqRange(SubSeq(tx_pkts, 1, r.ret)))
        /\ last' = [Call("tx_burst", NULL, Len(tx_pkts), r.ret) EXCEPT !.pkts = tx_pkts]
        /\ UNCHANGED <<mbuf, free, rxq, overrides, errvars>>

\* ------------------------------------------------------------- environment
\* The pool the receive queue was set up with.
RxPool == 1
\* Data bytes the driver puts into one segment.
RxRoom == rust_pktmbuf_data_room_size(RxPool) - Min(RTE_PKTMBUF_HEADROOM, rust_pktmbuf_data_room_size(RxPool))

\* Segments a frame of n bytes needs.
RxNeed(n) == (n + RxRoom - 1) \div RxRoom

\* The driver's fill of the raw mbufs s with a frame of n bytes: headroom at
\* the default, every segment but the last full, segments linked, pkt_len on
\* the head (a later segment keeps the pkt_len it had).
NicFill(mb, s, n) ==
    [b \in Bufs |->
        IF \E i \in 1..Len(s) : s[i] = b
        THEN LET i == CHOOSE j \in 1..Len(s) : s[j] = b IN
             [next |-> IF i < Len(s) THEN s[i + 1] ELSE NULL,
              pkt_len |-> IF i = 1 THEN ToU32(n) ELSE mb[b].pkt_len,
              data_off |-> DefaultHeadroom(b),
              data_len |-> IF i < Len(s) THEN RxRoom ELSE n - RxRoom * (Len(s) - 1)]
        ELSE mb[b]]

\* The NIC receives a frame of n bytes: the driver takes as many raw mbufs
\* of the queue's pool as the frame needs, fills and queues them.
NicReceive(n) ==
    /\ RxRoom > 0
    /\ \E s \in Arrays(free[RxPool], RxNeed(n)) :
        /\ Len(s) = RxNeed(n)
        /\ mbuf' = NicFill(mbuf, s, n)
        /\ free' = [free EXCEPT ![RxPool] = @ \ SeqRange(s)]
        /\ rxq' = Append(rxq, s[1])
    /\ last' = Call("nic_rx", NULL, n, 0)
    /\ UNCHANGED <<txq, owned, overrides, errvars>>

\* The hardware completes the oldest transmit descriptor: the driver frees
\* the packet with rte_pktmbuf_free.
TxComplete ==
    /\ txq # <<>>
    /\ LET r == rust_pktmbuf_free(mbuf, free, Head(txq)) IN
        /\ mbuf' = r.mb
        /\ free' = r.free
    /\ txq' = Tail(txq)
    /\ last' = Call("tx_done", Head(txq), 0, 0)
    /\ UNCHANGED <<rxq, owned, overrides, errvars>>

\* ------------------------------------------------------------ input sets
SetLens == Lens \cup {U16Max}
SetLens32 == {ToU32(l) : l \in Lens} \cup {U32Max}
EditLens == Lens \cup {U16Max}
LifeLens == {1}
LifeSet == {0, MaxLen}

\* The whole shim with its environment: pools, rings, the caller's handles.
Next ==
    \/ \E p \in Pools : Alloc(p)
    \/ \E m \in Bufs : Free(m)
    \/ \E m \in Bufs, len \in LifeLens : PktAppend(m, len)
    \/ \E m \in Bufs, len \in LifeLens : PktPrepend(m, len)
    \/ \E m \in Bufs, len \in LifeLens : PktAdj(m, len)
    \/ \E m \in Bufs, len \in LifeLens : PktTrim(m, len)
    \/ \E m \in Bufs : PktReset(m)
    \/ \E m \in Bufs, len \in LifeSet :
          overrides < MaxOverrides /\ SetDataLen(m, len)
    \/ \E m \in Bufs, len \in LifeSet :
          overrides < MaxOverrides /\ SetPktLen(m, ToU32(len))
    \/ \E nb_pkts \in 0..MaxBurst : RxBurst(nb_pkts)
    \/ \E tx_pkts \in Arrays(owned, MaxBurst) : TxBurst(tx_pkts)
    \/ \E n \in 1..MaxFrame : NicReceive(n)
    \/ TxComplete

Spec == Init /\ [][Next]_vars

\* The editor and the unchecked setters on one packet in the caller's hands:
\* a freshly allocated mbuf, or a two-segment packet as rx_burst returns it.
\* Lengths are drawn from the whole 16-bit (32-bit) range: small ones and the
\* largest.
PoolCreated ==
    [b \in Bufs |-> [next |-> NULL, pkt_len |-> ToU32(0),
                     data_off |-> DefaultHeadroom(b), data_len |-> 0]]
ChainSegs == <<1, 1 + NumPools>>
EditInit ==
    \/ /\ mbuf = PoolCreated
       /\ free = [p \in Pools |-> {b \in Bufs : PoolOf(b) = p} \ {1}]
       /\ rxq = <<>>
       /\ txq = <<>>
       /\ owned = {1}
       /\ overrides = 0
       /\ last = Call("alloc", 1, PoolOf(1), 1)
       /\ ErrInit
    \/ /\ mbuf = NicFill(PoolCreated, ChainSegs, 2 * RxRoom)
       /\ free = [p \in Pools |-> {b \in Bufs : PoolOf(b) = p} \ SeqRange(ChainSegs)]
       /\ rxq = <<>>
       /\ txq = <<>>
       /\ owned = {ChainSegs[1]}
       /\ overrides = 0
       /\ last = [Call("rx_burst", NULL, 1, 1) EXCEPT !.pkts = <<ChainSegs[1]>>]
       /\ ErrInit

EditNext ==
    \/ \E m \in Bufs, len \in EditLens : PktAppend(m, len)
    \/ \E m \in Bufs, len \in EditLens : PktPrepend(m, len)
    \/ \E m \in Bufs, len \in EditLens : PktAdj(m, len)
    \/ \E m \in Bufs, len \in EditLens : PktTrim(m, len)
    \/ \E m \in Bufs : PktReset(m)
    \/ \E m \in Bufs, len \in SetLens :
          overrides < MaxEditOverrides /\ SetDataLen(m, len)
    \/ \E m \in Bufs, len32 \in SetLens32 :
          overrides < MaxEditOverrides /\ SetPktLen(m, len32)

SpecEdit == EditInit /\ [][EditNext]_vars

\* The error slot alone: the worker of each lcore sets and reads rte_errno,
\* the workers' calls interleaved in any order.
SetErrno(lcore, err) ==
    /\ per_lcore__rte_errno' = rust_set_rte_errno(per_lcore__rte_errno, lcore, err)
    /\ written' = [written EXCEPT ![lcore] = err]
    /\ errlast' = [op |-> "set", lcore |-> lcore, val |-> err]
    /\ UNCHANGED <<mbuf, free, rxq, txq, owned, overrides, last>>

GetErrno(lcore) ==
    /\ errlast' = [op |-> "get", lcore |-> lcore,
                   val |-> rust_get_rte_errno(per_lcore__rte_errno, lcore)]
    /\ UNCHANGED <<mbuf, free, rxq, txq, owned, overrides, last,
                   per_lcore__rte_errno, written>>

ErrnoNext ==
    \/ \E lcore \in Lcores, err \in Errnos : SetErrno(lcore, err)
    \/ \E lcore \in Lcores : GetErrno(lcore)

SpecErrno == Init /\ [][ErrnoNext]_vars

\* =================================================================== claims
\* Segments that lie in no pool: in the caller's hands, in a ring, chained
\* behind such a head, or lost.
FreeSet == UNION {free[p] : p \in Pools}
Allocated == Bufs \ FreeSet
SegSum(mb, b) ==
    rust_pktmbuf_headroom(mb, b) + rust_pktmbuf_data_len(mb, b)
        + rust_pktmbuf_tailroom(mb, b)
\* The segment's data lies inside its data room.
InRoom(mb, b) == mb[b].data_off + mb[b].data_len <= buf_len(b)
PktInRoom(mb, m) == \A b \in SeqRange(Chain(mb, m)) : InRoom(mb, b)

\* C1 as stated: in every reachable state every allocated segment has
\* headroom + data_len + tailroom equal to the capacity of its pool.
C1_Original == \A b \in Allocated : SegSum(mbuf, b) = buf_len(b)

\* C1 amended: a segment handed out by alloc or rx_burst has
\* headroom + data_len + tailroom = capacity, and every call keeps that for
\* every allocated segment, except set_data_len(b, len) with
\* len > capacity - headroom(b), after which tailroom has wrapped modulo 2^16.
C1_SumKept ==
    [][\A b \in Bufs :
        (/\ b \in Allocated'
         /\ b \in Allocated => SegSum(mbuf, b) = buf_len(b)
         /\ ~(/\ last'.op = "set_data_len"
              /\ last'.m = b
              /\ last'.len > buf_len(b) - mbuf[b].data_off))
        => SegSum(mbuf', b) = buf_len(b)]_vars

\* C1 witness: after an in-range set_data_len, an append has succeeded on a
\* segment whose three parts still add up to the capacity.
C1_Witness ==
    /\ overrides >= 1
    /\ last.op = "append"
    /\ last.ptr # NullPtr
    /\ last.len > 0
    /\ SegSum(mbuf, last.ptr.seg) = buf_len(last.ptr.seg)

\* pkt_len of the head is the sum of data_len over the packet's segments.
LenConsistent(mb, m) == mb[m].pkt_len = ToU32(SumDataLen(mb, Chain(mb, m)))

\* C2 as stated: in every reachable state every caller-owned packet has
\* pkt_len equal to the sum of data_len over its chain (pkt_len = data_len
\* for a single segment).
C2_Original == \A m \in owned : LenConsistent(mbuf, m)

\* C2 amended: a packet handed out by alloc or rx_burst has pkt_len equal to
\* the sum of data_len over its chain, and alloc, append, prepend, adjust,
\* trim, reset, rx_burst, tx_burst and free keep that for every caller-owned
\* packet whose segments lie inside their data rooms; set_data_len and
\* set_pkt_len store one field only and do not keep it.
C2_LenKept ==
    [][\A m \in Bufs :
        (/\ m \in owned'
         /\ m \in owned => LenConsistent(mbuf, m) /\ PktInRoom(mbuf, m)
         /\ ~(last'.op \in {"set_data_len", "set_pkt_len"} /\ last'.m = m))
        => LenConsistent(mbuf', m)]_vars

\* C2 witness: an append has succeeded into the second segment of a chained
\* packet, whose pkt_len is the sum over both segments.
C2_Witness ==
    /\ last.op = "append"
    /\ last.ptr # NullPtr
    /\ last.len > 0
    /\ last.ptr.seg # last.m
    /\ last.m \in owned
    /\ LenConsistent(mbuf, last.m)

\* Every segment of the packets in ring q.
RingSegs(q) == UNION {SeqRange(Chain(mbuf, q[i])) : i \in 1..Len(q)}

C4_AllocFresh ==
    (last.op = "alloc" /\ last.ret # NULL) =>
        /\ rust_pktmbuf_headroom(mbuf, last.ret) = DefaultHeadroom(last.ret)
        /\ rust_pktmbuf_tailroom(mbuf, last.ret)
               = buf_len(last.ret) - DefaultHeadroom(last.ret)
        /\ rust_pktmbuf_data_len(mbuf, last.ret) = 0
        /\ rust_pktmbuf_pkt_len(mbuf, last.ret) = ToU32(0)
        /\ mbuf[last.ret].next = NULL

\* C4 witness: an alloc has succeeded after an unchecked setter was used and
\* while the pool's other mbuf lies in the pool with stale lengths.
C4_Witness ==
    /\ last.op = "alloc"
    /\ last.ret # NULL
    /\ Holds(owned, last.ret)
    /\ overrides >= 1
    /\ \E b \in FreeSet : mbuf[b].data_len # 0 \/ mbuf[b].data_off # DefaultHeadroom(b)

\* q is p + n with no carry out of 32 bits.
Plus32(p, n, q) == q = Add32(p, n) /\ ~(p[1] = U16Max /\ p[2] + n >= U16)
\* Every mbuf but those of S is as it was.
OthersKept(mb, nb, S) == \A b \in Bufs \ S : nb[b] = mb[b]

\* C5 as stated: for len <= tailroom(b), append(b, len) succeeds, data_len(b)
\* is larger by len, tailroom(b) smaller by len, headroom(b) unchanged,
\* pkt_len(b) larger by len, and the pointer returned is headroom + old
\* data_len of b, inside [0, capacity].
C5_Original ==
    [][(last'.op = "append"
            /\ last'.len <= rust_pktmbuf_tailroom(mbuf, last'.m)) =>
        LET m == last'.m
            len == last'.len IN
        /\ last'.ptr # NullPtr
        /\ mbuf'[m].data_len = mbuf[m].data_len + len
        /\ rust_pktmbuf_tailroom(mbuf', m) = rust_pktmbuf_tailroom(mbuf, m) - len
        /\ mbuf'[m].data_off = mbuf[m].data_off
        /\ Plus32(mbuf[m].pkt_len, len, mbuf'[m].pkt_len)
        /\ last'.ptr = [seg |-> m, off |-> mbuf[m].data_off + mbuf[m].data_len]
        /\ last'.ptr.off <= buf_len(m)]_vars

\* C5 amended: append(b, len) acts on the last segment l of b's chain (l = b
\* for a single segment).  For len <= tailroom(l) it succeeds: data_len(l) is
\* larger by len modulo 2^16, tailroom(l) is smaller by len, headroom(l) is
\* unchanged, pkt_len(b) is larger by len modulo 2^32, nothing else changes,
\* and the pointer returned is data_off(l) + old data_len(l) in l's data
\* room.  If l's data lay inside its room before the call, data_len(l) is
\* larger by exactly len and the pointer lies inside [0, capacity].
C5_AppendLast ==
    [][last'.op = "append" =>
        LET m == last'.m
            len == last'.len
            l == rte_pktmbuf_lastseg(mbuf, m) IN
        len <= rust_pktmbuf_tailroom(mbuf, l) =>
            /\ last'.ptr = [seg |-> l, off |-> mbuf[l].data_off + mbuf[l].data_len]
            /\ mbuf'[l].data_len = (mbuf[l].data_len + len) % U16
            /\ rust_pktmbuf_tailroom(mbuf', l) = rust_pktmbuf_tailroom(mbuf, l) - len
            /\ mbuf'[l].data_off = mbuf[l].data_off
            /\ mbuf'[l].next = mbuf[l].next
            /\ mbuf'[m].pkt_len = Add32(mbuf[m].pkt_len, len)
            /\ l # m => [mbuf'[m] EXCEPT !.pkt_len = mbuf[m].pkt_len] = mbuf[m]
            /\ OthersKept(mbuf, mbuf', {l, m})
            /\ InRoom(mbuf, l) =>
                  /\ mbuf'[l].data_len = mbuf[l].data_len + len
                  /\ last'.ptr.off <= buf_len(l)
                  /\ InRoom(mbuf', l)]_vars

\* C5 witness: an append of len > 0 has succeeded into the second segment of
\* a chained packet.
C5_Witness ==
    /\ last.op = "append"
    /\ last.len > 0
    /\ last.ptr # NullPtr
    /\ last.ptr.seg # last.m
    /\ mbuf[last.m].next = last.ptr.seg

\* C6 as stated: for len > tailroom(b), append(b, len) returns null and
\* leaves every field of b as it was.
C6_Original ==
    [][(last'.op = "append"
            /\ last'.len > rust_pktmbuf_tailroom(mbuf, last'.m)) =>
        /\ last'.ptr = NullPtr
        /\ mbuf' = mbuf]_vars

\* C6 amended: for len > tailroom(l), l the last segment of b's chain,
\* append(b, len) returns null and leaves every field of every segment as it
\* was.
C6_AppendFails ==
    [][(last'.op = "append"
            /\ last'.len > rust_pktmbuf_tailroom(mbuf,
                                rte_pktmbuf_lastseg(mbuf, last'.m))) =>
        /\ last'.ptr = NullPtr
        /\ mbuf' = mbuf]_vars

\* C6 witness: an append longer than the tailroom of a chained packet's last
\* segment has returned null.
C6_Witness ==
    /\ last.op = "append"
    /\ last.ptr = NullPtr
    /\ mbuf[last.m].next # NULL
    /\ last.len > rust_pktmbuf_tailroom(mbuf, rte_pktmbuf_lastseg(mbuf, last.m))
    /\ last.len <= MaxLen

\* C7 as stated: prepend(b, len) succeeds exactly when len <= headroom(b);
\* then data_len is larger by len, headroom smaller by len and the pointer
\* returned is the new data start; otherwise it returns null.
C7_Original ==
    [][last'.op = "prepend" =>
        LET m == last'.m
            len == last'.len IN
        IF len <= rust_pktmbuf_headroom(mbuf, m)
        THEN /\ last'.ptr = [seg |-> m, off |-> mbuf[m].data_off - len]
             /\ mbuf'[m].data_len = mbuf[m].data_len + len
             /\ mbuf'[m].data_off = mbuf[m].data_off - len
        ELSE last'.ptr = NullPtr]_vars

\* C7 amended: prepend(b, len) succeeds exactly when len <= headroom(b)
\* (len == headroom included); then headroom is smaller by len, the pointer
\* returned is the new data start, and data_len is larger by len modulo 2^16:
\* by exactly len unless data_len + len > 65535, which cannot happen while
\* the data lies inside the data room.  Otherwise it returns null.
C7_Prepend ==
    [][last'.op = "prepend" =>
        LET m == last'.m
            len == last'.len IN
        IF len <= rust_pktmbuf_headroom(mbuf, m)
        THEN /\ last'.ptr = [seg |-> m, off |-> mbuf[m].data_off - len]
             /\ mbuf'[m].data_off = mbuf[m].data_off - len
             /\ mbuf'[m].data_len = (mbuf[m].data_len + len) % U16
             /\ mbuf[m].data_len + len <= U16Max =>
                    mbuf'[m].data_len = mbuf[m].data_len + len
             /\ InRoom(mbuf, m) => mbuf[m].data_len + len <= U16Max
        ELSE last'.ptr = NullPtr]_vars

\* C7 witness: a prepend of exactly the headroom has succeeded and left
\* headroom 0.
C7_Witness ==
    /\ last.op = "prepend"
    /\ last.len > 0
    /\ last.ptr = [seg |-> last.m, off |-> 0]
    /\ mbuf[last.m].data_off = 0
    /\ InRoom(mbuf, last.m)

\* C8 as stated: adjust(b, len) succeeds exactly when len <= data_len(b);
\* then data_len is smaller by len and headroom larger by len; otherwise it
\* returns null.
C8_Original ==
    [][last'.op = "adj" =>
        LET m == last'.m
            len == last'.len IN
        IF len <= mbuf[m].data_len
        THEN /\ last'.ptr # NullPtr
             /\ mbuf'[m].data_len = mbuf[m].data_len - len
             /\ mbuf'[m].data_off = mbuf[m].data_off + len
        ELSE last'.ptr = NullPtr]_vars

\* C8 amended: adjust(b, len) succeeds exactly when len <= data_len(b); then
\* data_len is smaller by len and headroom is larger by len modulo 2^16: by
\* exactly len unless headroom + len > 65535, which cannot happen while the
\* data lies inside the data room.  Otherwise it returns null.
C8_Adj ==
    [][last'.op = "adj" =>
        LET m == last'.m
            len == last'.len IN
        IF len <= mbuf[m].data_len
        THEN /\ last'.ptr = [seg |-> m, off |-> mbuf'[m].data_off]
             /\ mbuf'[m].data_len = mbuf[m].data_len - len
             /\ mbuf'[m].data_off = (mbuf[m].data_off + len) % U16
             /\ mbuf[m].data_off + len <= U16Max =>
                    mbuf'[m].data_off = mbuf[m].data_off + len
             /\ InRoom(mbuf, m) => mbuf[m].data_off + len <= U16Max
        ELSE last'.ptr = NullPtr]_vars

\* C8 witness: an adjust by the whole data_len > 0 has succeeded.
C8_Witness ==
    /\ last.op = "adj"
    /\ last.len > 0
    /\ last.ptr # NullPtr
    /\ mbuf[last.m].data_len = 0
    /\ mbuf[last.m].data_off >= last.len

\* C9 as stated: trim(b, len) succeeds exactly when len <= data_len(b), b the
\* buffer passed (also when it heads a chain); then data_len is smaller by
\* len, tailroom larger by len, headroom unchanged; otherwise it fails.
C9_Original ==
    [][last'.op = "trim" =>
        LET m == last'.m
            len == last'.len IN
        IF len <= mbuf[m].data_len
        THEN /\ last'.ret = 0
             /\ mbuf'[m].data_len = mbuf[m].data_len - len
             /\ rust_pktmbuf_tailroom(mbuf', m) = rust_pktmbuf_tailroom(mbuf, m) + len
             /\ mbuf'[m].data_off = mbuf[m].data_off
        ELSE last'.ret = -1]_vars

\* C9 amended: trim(b, len) succeeds exactly when len <= data_len(l), l the
\* last segment of b's chain (l = b for a single segment); then data_len(l)
\* is smaller by len, headroom(l) unchanged and tailroom(l) larger by len
\* modulo 2^16 (by exactly len while the data lies inside the data room);
\* otherwise it fails.
C9_TrimLast ==
    [][last'.op = "trim" =>
        LET m == last'.m
            len == last'.len
            l == rte_pktmbuf_lastseg(mbuf, m) IN
        IF len <= mbuf[l].data_len
        THEN /\ last'.ret = 0
             /\ mbuf'[l].data_len = mbuf[l].data_len - len
             /\ mbuf'[l].data_off = mbuf[l].data_off
             /\ rust_pktmbuf_tailroom(mbuf', l)
                    = (rust_pktmbuf_tailroom(mbuf, l) + len) % U16
             /\ InRoom(mbuf, l) =>
                    rust_pktmbuf_tailroom(mbuf', l)
                        = rust_pktmbuf_tailroom(mbuf, l) + len
             /\ l # m => mbuf'[m].data_len = mbuf[m].data_len
        ELSE last'.ret = -1]_vars

\* C9 witness: a trim of len > 0 has succeeded on a chained packet whose head
\* holds less than len bytes.
C9_Witness ==
    /\ last.op = "trim"
    /\ last.len > 0
    /\ last.ret = 0
    /\ mbuf[last.m].next # NULL
    /\ mbuf[last.m].data_len < last.len

\* C10: reset(b) leaves b with data_len = 0, pkt_len = 0, headroom at the
\* pool default and no next segment, and every segment that was chained
\* behind b lies in a pool afterwards.
C10_ResetFreesChain ==
    [][last'.op = "reset" =>
        /\ mbuf'[last'.m] = [next |-> NULL, pkt_len |-> ToU32(0),
                             data_off |-> DefaultHeadroom(last'.m), data_len |-> 0]
        /\ \A s \in SeqRange(Chain(mbuf, last'.m)) \ {last'.m} : s \in FreeSet']_vars

C12_TxBurst ==
    [][last'.op = "tx_burst" =>
        LET n == last'.ret
            bufs == last'.pkts IN
        /\ 0 <= n /\ n <= Len(bufs)
        /\ n <= TxRingSize - Len(txq)
        /\ txq' = txq \o SubSeq(bufs, 1, n)
        /\ \A i \in 1..Len(bufs) :
            IF i <= n THEN ~Holds(owned', bufs[i]) ELSE Holds(owned', bufs[i])
        /\ owned' = owned \ {bufs[i] : i \in 1..n}
        /\ mbuf' = mbuf
        /\ free' = free
        /\ rxq' = rxq]_vars

\* C12 witness: of a burst of two packets that carry data only the first was
\* accepted; the second is still with the caller, who may free it.
C12_Witness ==
    /\ last.op = "tx_burst"
    /\ Len(last.pkts) = 2
    /\ last.ret = 1
    /\ txq = <<last.pkts[1]>>
    /\ mbuf[last.pkts[2]].data_len > 0
    /\ mbuf[last.pkts[2]].pkt_len = ToU32(mbuf[last.pkts[2]].data_len)
    /\ ENABLED Free(last.pkts[2])

\* C13: rx_burst(max) returns k = min(max, frames queued) buffers, so
\* 0 <= k <= max and k < max only when the ring is left empty; the buffers
\* returned are the oldest frames in order, pairwise distinct, all with the
\* caller afterwards, and none of them (nor any segment chained behind one)
\* was with the caller or in a pool before the call.
C13_RxBurst ==
    [][last'.op = "rx_burst" =>
        LET k == last'.ret
            max == last'.len
            bufs == last'.pkts IN
        /\ Len(bufs) = k
        /\ 0 <= k /\ k <= max
        /\ k = Min(max, Len(rxq))
        /\ k < max => rxq' = <<>>
        /\ bufs = SubSeq(rxq, 1, k)
        /\ rxq' = SubSeq(rxq, k + 1, Len(rxq))
        /\ \A i, j \in 1..k : i # j => bufs[i] # bufs[j]
        /\ \A i \in 1..k :
            /\ Holds(owned', bufs[i])
            /\ ~Holds(owned, bufs[i])
            /\ \A s \in SeqRange(Chain(mbuf, bufs[i])) :
                  s \notin FreeSet /\ s \notin owned
        /\ owned' = owned \cup SeqRange(bufs)
        /\ mbuf' = mbuf
        /\ free' = free]_vars

\* C13 witness: a poll for two packets has returned two distinct packets,
\* both now with the caller, and left the ring empty.
C13_Witness ==
    /\ last.op = "rx_burst"
    /\ last.len = 2
    /\ last.ret = 2
    /\ last.pkts[1] # last.pkts[2]
    /\ Holds(owned, last.pkts[1])
    /\ Holds(owned, last.pkts[2])
    /\ rxq = <<>>

\* C14: alloc(pool) returns null exactly when the pool has no free buffer
\* and a buffer of the pool's free set otherwise; a failed alloc changes
\* neither a free set nor any mbuf nor the caller's handles.
C14_AllocExhausted ==
    [][last'.op = "alloc" =>
        LET p == last'.len
            m == last'.ret IN
        /\ (m = NULL) <=> (free[p] = {})
        /\ m = NULL => mbuf' = mbuf /\ free' = free /\ owned' = owned
        /\ m # NULL =>
            /\ m \in free[p]
            /\ free' = [free EXCEPT ![p] = @ \ {m}]
            /\ owned' = owned \cup {m}
            /\ OthersKept(mbuf, mbuf', {m})]_vars

\* C14 witness: an alloc has failed with every buffer of the pool handed
\* out.
C14_Witness ==
    /\ last.op = "alloc"
    /\ last.ret = NULL
    /\ free[last.len] = {}
    /\ owned # {}

\* C15: for a caller-owned b, adjust(b, data_len(b)) succeeds, and reset(b)
\* after it gives the same mbufs, chains and free sets as reset(b) in its
\* place: on every step that is an adjust by the whole data_len, resetting
\* the state reached equals resetting the state left.
C15_AdjThenReset ==
    [][(last'.op = "adj" /\ last'.len = mbuf[last'.m].data_len) =>
        /\ last'.ptr # NullPtr
        /\ Holds(owned', last'.m)
        /\ rust_pktmbuf_reset(mbuf', last'.m) = rust_pktmbuf_reset(mbuf, last'.m)
        /\ free' = free
        /\ owned' = owned]_vars

\* C15 witness: the head of a chained packet has been adjusted by its whole
\* data_len > 0, and a reset now would change it.
C15_Witness ==
    /\ last.op = "adj"
    /\ last.len > 0
    /\ last.ptr # NullPtr
    /\ mbuf[last.m].data_len = 0
    /\ mbuf[last.m].next # NULL
    /\ mbuf[last.m].data_off # DefaultHeadroom(last.m)
    /\ ENABLED PktReset(last.m)

\* C16 as stated: for a caller-owned b and N <= tailroom(b), append(b, N)
\* succeeds, trim(b, N) after it succeeds, and data_len(b) and tailroom(b)
\* are then what they were before the append.
C16_Original ==
    [][(last'.op = "append"
            /\ last'.len <= rust_pktmbuf_tailroom(mbuf, last'.m)) =>
        LET m == last'.m
            t == rust_pktmbuf_trim(mbuf', m, last'.len) IN
        /\ last'.ptr # NullPtr
        /\ t.ret = 0
        /\ t.mb[m].data_len = mbuf[m].data_len
        /\ rust_pktmbuf_tailroom(t.mb, m) = rust_pktmbuf_tailroom(mbuf, m)]_vars

\* C16 amended: let l be the last segment of b's chain (l = b for a single
\* segment).  If the data of l lies inside its data room and N <= tailroom(l),
\* append(b, N) succeeds, trim(b, N) after it succeeds, and every field of
\* every segment (data_len and tailroom of l and of b, pkt_len of b) is then
\* what it was before the append.
C16_RoundTrip ==
    [][(/\ last'.op = "append"
        /\ InRoom(mbuf, rte_pktmbuf_lastseg(mbuf, last'.m))
        /\ last'.len <= rust_pktmbuf_tailroom(mbuf,
                            rte_pktmbuf_lastseg(mbuf, last'.m))) =>
        LET m == last'.m
            t == rust_pktmbuf_trim(mbuf', m, last'.len) IN
        /\ last'.ptr # NullPtr
        /\ Holds(owned', m)
        /\ t.ret = 0
        /\ t.mb = mbuf
        /\ rust_pktmbuf_tailroom(t.mb, m) = rust_pktmbuf_tailroom(mbuf, m)]_vars

\* C16 witness: an append of N > 0 has succeeded on a single-segment buffer
\* that already held data, and the trim of N that undoes it can be taken.
C16_Witness ==
    /\ last.op = "append"
    /\ last.len > 0
    /\ last.ptr = [seg |-> last.m,
                   off |-> mbuf[last.m].data_off + mbuf[last.m].data_len - last.len]
    /\ mbuf[last.m].data_len > last.len
    /\ InRoom(mbuf, last.m)
    /\ rust_pktmbuf_trim(mbuf, last.m, last.len).ret = 0
    /\ ENABLED PktTrim(last.m, last.len)

\* C17: the error slot is per lcore.  A set on core A leaves the slot of
\* every other core B as it was, so B never reads A's value in place of its
\* own; a get on core c returns the value c itself set last (0 before its
\* first set) and changes no slot.
C17_ErrnoPerLcore ==
    [][/\ errlast'.op = "set" =>
            /\ rust_get_rte_errno(per_lcore__rte_errno', errlast'.lcore) = errlast'.val
            /\ \A B \in Lcores \ {errlast'.lcore} :
                  rust_get_rte_errno(per_lcore__rte_errno', B)
                      = rust_get_rte_errno(per_lcore__rte_errno, B)
       /\ errlast'.op = "get" =>
            /\ errlast'.val = written[errlast'.lcore]
            /\ per_lcore__rte_errno' = per_lcore__rte_errno
       /\ \A c \in Lcores : per_lcore__rte_errno'[c] = written'[c]]_vars

\* C17 witness: core B reads back its own value after another core has set a
\* different one in between.
C17_Witness ==
    /\ errlast.op = "get"
    /\ errlast.val # 0
    /\ errlast.val = written[errlast.lcore]
    /\ \E A \in Lcores \ {errlast.lcore} :
          written[A] # 0 /\ written[A] # errlast.val

\* C18: set_data_len(b, len) and set_pkt_len(b, len) validate nothing: for
\* every len, those above the capacity included, the call stores len;
\* set_data_len changes data_len of b and nothing else, set_pkt_len changes
\* pkt_len of b and nothing else (headroom, the other length, the chain link,
\* every other mbuf, the pools and the caller's handles stay as they were).
C18_SettersUnchecked ==
    [][/\ last'.op = "set_data_len" =>
            /\ rust_pktmbuf_data_len(mbuf', last'.m) = last'.len
            /\ mbuf' = [mbuf EXCEPT ![last'.m].data_len = last'.len]
            /\ free' = free /\ owned' = owned /\ rxq' = rxq /\ txq' = txq
       /\ last'.op = "set_pkt_len" =>
            /\ rust_pktmbuf_pkt_len(mbuf', last'.m) = last'.len32
            /\ mbuf' = [mbuf EXCEPT ![last'.m].pkt_len = last'.len32]
            /\ free' = free /\ owned' = owned /\ rxq' = rxq /\ txq' = txq]_vars

\* C18 witness: set_data_len has stored 65535, far above the capacity, on the
\* head of a chained packet whose pkt_len, headroom and link are untouched.
C18_Witness ==
    /\ last.op = "set_data_len"
    /\ last.len = U16Max
    /\ last.len > buf_len(last.m)
    /\ mbuf[last.m].data_len = U16Max
    /\ mbuf[last.m].next # NULL
    /\ mbuf[last.m].data_off = DefaultHeadroom(last.m)
    /\ mbuf[last.m].pkt_len = ToU32(2 * RxRoom)

\* Segments of the packets the caller holds.
CallerSegs == UNION {SeqRange(Chain(mbuf, m)) : m \in owned}
\* Segments of the packets in the receive or the transmit ring.
TransportSegs == RingSegs(rxq) \cup RingSegs(txq)

\* C19: every buffer is in exactly one of three places: free in its pool,
\* with the caller (a packet the caller holds, any segment of it), or with
\* the transport (a packet in the receive or transmit ring); the three counts
\* add up to the number of buffers, so no call creates or loses a buffer.
C19_Conservation ==
    /\ FreeSet \cup CallerSegs \cup TransportSegs = Bufs
    /\ FreeSet \cap CallerSegs = {}
    /\ FreeSet \cap TransportSegs = {}
    /\ CallerSegs \cap TransportSegs = {}
    /\ Cardinality(FreeSet) + Cardinality(CallerSegs)
           + Cardinality(TransportSegs) = NumBufs

\* headroom, data_len and tailroom of segment b lie in 0..capacity and the
\* tailroom subtraction has not wrapped.
InRange(mb, b) ==
    /\ rust_pktmbuf_headroom(mb, b) <= buf_len(b)
    /\ rust_pktmbuf_data_len(mb, b) <= buf_len(b)
    /\ rust_pktmbuf_tailroom(mb, b) <= buf_len(b)
    /\ InRoom(mb, b)

====
